---- MODULE Spec2Model ----
(***************************************************************************)
(* Transport-parameter codec of internal/handshake/transport_parameters.go *)
(* (quic-go): Marshal, Unmarshal, the session-ticket subset codec and      *)
(* ValidFor0RTT, modelled at the level of the bytes on the wire.           *)
(*                                                                         *)
(* Numbers.  Go's uint64 and int64 (time.Duration, nanoseconds) are kept   *)
(* at their full width as eight bytes, most significant first, so that     *)
(* the wrap-around of time.Duration(val)*time.Millisecond is computed, not *)
(* assumed away.  Lengths and positions of the reader are small naturals.  *)
(***************************************************************************)
EXTENDS Integers, Sequences, FiniteSets, TLC

VARIABLES
    p,       \* the receiver *TransportParameters of the decode call
    data,    \* the byte buffer handed to Unmarshal / produced by Marshal
    err,     \* the error the last call returned (NoError: nil)
    op,      \* the last operation performed
    sentBy,  \* protocol.Perspective given to Unmarshal
    recs,    \* history: the records the buffer was composed of
    cut,     \* history: byte length the composed buffer was cut to (0: not cut)
    src,     \* history: the value Marshal / MarshalForSessionTicket was called on
    before,  \* history: the receiver as it was when the decode call was made
    tp,      \* the argument of ValidFor0RTT
    valid    \* the result of ValidFor0RTT

vars == <<p, data, err, op, sentBy, recs, cut, src, before, tp, valid>>

\* a nil pointer is the empty sequence, a pointer to x the one-element sequence <<x>>
Nil == <<>>
Ptr(x) == <<x>>
Deref(x) == x[1]

---------------------------------------------------------------------------
(* uint64 / int64 as eight bytes, big-endian *)

Zero64 == <<0, 0, 0, 0, 0, 0, 0, 0>>

\* uint64(n) for a natural n below 2^31
U64(n) ==
    <<0, 0, 0, 0, n \div 16777216, (n \div 65536) % 256, (n \div 256) % 256, n % 256>>

\* n * 2^32 + m as a uint64, for n below 2^30 and m below 2^31 (wide literals)
U64Hi(n, m) ==
    <<n \div 16777216, (n \div 65536) % 256, (n \div 256) % 256, n % 256,
      m \div 16777216, (m \div 65536) % 256, (m \div 256) % 256, m % 256>>

\* the small natural a uint64 holds; used only where the value is known to fit
ToNat(v) == ((v[5] * 256 + v[6]) * 256 + v[7]) * 256 + v[8]

FitsNat(v) == v[1] = 0 /\ v[2] = 0 /\ v[3] = 0 /\ v[4] = 0 /\ v[5] < 128

RECURSIVE LtFrom(_, _, _)
LtFrom(a, b, i) ==
    IF i > 8 THEN FALSE
    ELSE IF a[i] # b[i] THEN a[i] < b[i]
    ELSE LtFrom(a, b, i + 1)

\* a < b for uint64
LtU(a, b) == LtFrom(a, b, 1)

\* the sign bit of an int64
IsNeg(a) == a[1] >= 128

\* a < b for int64 (two's complement)
LtS(a, b) == IF IsNeg(a) # IsNeg(b) THEN IsNeg(a) ELSE LtFrom(a, b, 1)

RECURSIVE MulStep(_, _, _, _, _)
MulStep(v, m, i, carry, acc) ==
    IF i = 0 THEN acc
    ELSE LET t == v[i] * m + carry
         IN  MulStep(v, m, i - 1, t \div 256, <<t % 256>> \o acc)

\* v * m modulo 2^64 (Go's wrapping multiplication), m at most 10^6
MulWrap(v, m) == MulStep(v, m, 8, 0, <<>>)

RECURSIVE DivStep(_, _, _, _, _)
DivStep(v, m, i, rem, acc) ==
    IF i > 8 THEN acc
    ELSE LET t == rem * 256 + v[i]
         IN  DivStep(v, m, i + 1, t % m, Append(acc, t \div m))

\* v / m for a non-negative v, m at most 10^6
DivU(v, m) == DivStep(v, m, 1, 0, <<>>)

---------------------------------------------------------------------------
(* utils: the variable-length integer primitive and time helpers *)

Millisecond == 1000000

\* time.Duration(val) * time.Millisecond, wrapping in int64
DurationOfMillis(val) == MulWrap(val, Millisecond)

\* uint64(d / time.Millisecond) for a non-negative duration d
MillisOfDuration(d) == DivU(d, Millisecond)

\* utils.MaxDuration
MaxDuration(a, b) == IF LtS(b, a) THEN a ELSE b

\* bytes pos+1 .. pos+n of d
Slice(d, pos, n) == SubSeq(d, pos + 1, pos + n)

\* utils.ReadVarInt on the reader at offset pos: the two top bits of the first
\* byte give the length 1, 2, 4 or 8; a short read is an error (io.EOF).
ReadVarInt(d, pos) ==
    IF pos >= Len(d) THEN [ok |-> FALSE, val |-> Zero64, pos |-> pos]
    ELSE LET b0 == d[pos + 1]
             n  == CASE b0 \div 64 = 0 -> 1
                      [] b0 \div 64 = 1 -> 2
                      [] b0 \div 64 = 2 -> 4
                      [] OTHER          -> 8
         IN  IF pos + n > Len(d) THEN [ok |-> FALSE, val |-> Zero64, pos |-> Len(d)]
             ELSE [ok  |-> TRUE,
                   val |-> SubSeq(Zero64, 1, 8 - n) \o <<b0 % 64>> \o Slice(d, pos + 1, n - 1),
                   pos |-> pos + n]

\* utils.VarIntLen: 1, 2, 4 or 8 (values from 2^62 on make it panic)
VarIntLen(v) ==
    IF SubSeq(v, 1, 7) = SubSeq(Zero64, 1, 7) /\ v[8] < 64 THEN 1
    ELSE IF SubSeq(v, 1, 6) = SubSeq(Zero64, 1, 6) /\ v[7] < 64 THEN 2
    ELSE IF SubSeq(v, 1, 4) = SubSeq(Zero64, 1, 4) /\ v[5] < 64 THEN 4
    ELSE 8

\* the values utils.WriteVarInt encodes without panicking
CanWriteVarInt(v) == v[1] < 64

\* utils.WriteVarInt: the shortest of the four forms
WriteVarInt(v) ==
    CASE VarIntLen(v) = 1 -> <<v[8]>>
      [] VarIntLen(v) = 2 -> <<64 + v[7], v[8]>>
      [] VarIntLen(v) = 4 -> <<128 + v[5], v[6], v[7], v[8]>>
      [] OTHER            -> <<192 + v[1]>> \o SubSeq(v, 2, 8)

---------------------------------------------------------------------------
(* protocol constants *)

DefaultAckDelayExponent == 3
MaxAckDelayExponent == 20
DefaultMaxAckDelayMillis == 25
MaxMaxAckDelayMillis == 16384
MinRemoteIdleTimeoutMillis == 5000
MaxReceivePacketSizeBytes == 1452

DefaultMaxAckDelay == DurationOfMillis(U64(DefaultMaxAckDelayMillis))
MaxMaxAckDelay == DurationOfMillis(U64(MaxMaxAckDelayMillis))
MinRemoteIdleTimeout == DurationOfMillis(U64(MinRemoteIdleTimeoutMillis))
MaxReceivePacketSize == U64(MaxReceivePacketSizeBytes)
\* protocol.MaxByteCount = 1<<62 - 1
MaxByteCount == <<63, 255, 255, 255, 255, 255, 255, 255>>
\* utils.InfDuration = math.MaxInt64
InfDuration == <<127, 255, 255, 255, 255, 255, 255, 255>>

PerspectiveServer == "server"
PerspectiveClient == "client"

transportParameterMarshalingVersion == 1

originalConnectionIDParameterID == U64(0)
maxIdleTimeoutParameterID == U64(1)
statelessResetTokenParameterID == U64(2)
maxPacketSizeParameterID == U64(3)
initialMaxDataParameterID == U64(4)
initialMaxStreamDataBidiLocalParameterID == U64(5)
initialMaxStreamDataBidiRemoteParameterID == U64(6)
initialMaxStreamDataUniParameterID == U64(7)
initialMaxStreamsBidiParameterID == U64(8)
initialMaxStreamsUniParameterID == U64(9)
ackDelayExponentParameterID == U64(10)
maxAckDelayParameterID == U64(11)
disableActiveMigrationParameterID == U64(12)
preferredAddressParameterID == U64(13)
activeConnectionIDLimitParameterID == U64(14)

\* the identifiers unmarshal hands to readNumericTransportParameter
NumericIDs ==
    { ackDelayExponentParameterID, maxAckDelayParameterID,
      initialMaxStreamDataBidiLocalParameterID, initialMaxStreamDataBidiRemoteParameterID,
      initialMaxStreamDataUniParameterID, initialMaxDataParameterID,
      initialMaxStreamsBidiParameterID, initialMaxStreamsUniParameterID,
      maxIdleTimeoutParameterID, maxPacketSizeParameterID,
      activeConnectionIDLimitParameterID }

\* the zero value of TransportParameters (var p TransportParameters)
ZeroParams ==
    [ InitialMaxStreamDataBidiLocal  |-> Zero64,
      InitialMaxStreamDataBidiRemote |-> Zero64,
      InitialMaxStreamDataUni        |-> Zero64,
      InitialMaxData                 |-> Zero64,
      MaxAckDelay                    |-> Zero64,
      AckDelayExponent               |-> 0,
      DisableActiveMigration         |-> FALSE,
      MaxPacketSize                  |-> Zero64,
      MaxUniStreamNum                |-> Zero64,
      MaxBidiStreamNum               |-> Zero64,
      MaxIdleTimeout                 |-> Zero64,
      PreferredAddress               |-> Nil,
      StatelessResetToken            |-> Nil,
      OriginalConnectionID           |-> <<>>,
      ActiveConnectionIDLimit        |-> Zero64 ]

\* errors: code is set by Unmarshal's qerr wrapping, kind names the message,
\* arg is the identifier, length or version the message prints
NoError == [code |-> "", kind |-> "nil", arg |-> Zero64]
Error(kind, arg) == [code |-> "", kind |-> kind, arg |-> arg]

---------------------------------------------------------------------------
(* the decoder *)

\* io.ReadFull's error after `have` of the wanted bytes were read
ReadFullError(have) == IF have = 0 THEN Error("EOF", Zero64) ELSE Error("unexpected EOF", Zero64)

\* the per-identifier validation and assignment of readNumericTransportParameter
\* (its switch), for the value val read off the wire
assignNumeric(q, paramID, val) ==
    CASE paramID = initialMaxStreamDataBidiLocalParameterID ->
            [p |-> [q EXCEPT !.InitialMaxStreamDataBidiLocal = val], err |-> NoError]
      [] paramID = initialMaxStreamDataBidiRemoteParameterID ->
            [p |-> [q EXCEPT !.InitialMaxStreamDataBidiRemote = val], err |-> NoError]
      [] paramID = initialMaxStreamDataUniParameterID ->
            [p |-> [q EXCEPT !.InitialMaxStreamDataUni = val], err |-> NoError]
      [] paramID = initialMaxDataParameterID ->
            [p |-> [q EXCEPT !.InitialMaxData = val], err |-> NoError]
      [] paramID = initialMaxStreamsBidiParameterID ->
            [p |-> [q EXCEPT !.MaxBidiStreamNum = val], err |-> NoError]
      [] paramID = initialMaxStreamsUniParameterID ->
            [p |-> [q EXCEPT !.MaxUniStreamNum = val], err |-> NoError]
      [] paramID = maxIdleTimeoutParameterID ->
            [p |-> [q EXCEPT !.MaxIdleTimeout =
                               MaxDuration(MinRemoteIdleTimeout, DurationOfMillis(val))],
             err |-> NoError]
      [] paramID = maxPacketSizeParameterID ->
            IF LtU(val, U64(1200))
            THEN [p |-> q, err |-> Error("invalid value for max_packet_size", val)]
            ELSE [p |-> [q EXCEPT !.MaxPacketSize = val], err |-> NoError]
      [] paramID = ackDelayExponentParameterID ->
            IF LtU(U64(MaxAckDelayExponent), val)
            THEN [p |-> q, err |-> Error("invalid value for ack_delay_exponent", val)]
            ELSE [p |-> [q EXCEPT !.AckDelayExponent = ToNat(val)], err |-> NoError]
      [] paramID = maxAckDelayParameterID ->
            \* maxAckDelay := time.Duration(val) * time.Millisecond
            IF ~LtS(DurationOfMillis(val), MaxMaxAckDelay)
            THEN [p |-> q, err |-> Error("invalid value for max_ack_delay", val)]
            ELSE [p |-> [q EXCEPT !.MaxAckDelay =
                                    IF IsNeg(DurationOfMillis(val)) THEN InfDuration
                                    ELSE DurationOfMillis(val)],
                  err |-> NoError]
      [] paramID = activeConnectionIDLimitParameterID ->
            [p |-> [q EXCEPT !.ActiveConnectionIDLimit = val], err |-> NoError]
      [] OTHER ->
            [p |-> q, err |-> Error("TransportParameter BUG: transport parameter not found", paramID)]

\* readNumericTransportParameter after its utils.ReadVarInt(r), whose outcome is v:
\* the read must succeed and must have taken exactly the declared length
checkNumeric(q, pos, paramID, expectedLen, v) ==
    IF ~v.ok
    THEN [p |-> q, pos |-> v.pos, err |-> Error("error while reading transport parameter", paramID)]
    ELSE IF U64(v.pos - pos) # expectedLen
    THEN [p |-> q, pos |-> v.pos, err |-> Error("inconsistent transport parameter length", paramID)]
    ELSE [pos |-> v.pos] @@ assignNumeric(q, paramID, v.val)

\* readNumericTransportParameter with the reader at offset pos
readNumericTransportParameter(q, d, pos, paramID, expectedLen) ==
    checkNumeric(q, pos, paramID, expectedLen, ReadVarInt(d, pos))

\* the PreferredAddress read off offset pos, its connection ID connIDLen bytes long
addressAt(d, pos, connIDLen) ==
    [ IPv4                |-> Slice(d, pos, 4),
      IPv4Port            |-> d[pos + 5] * 256 + d[pos + 6],
      IPv6                |-> Slice(d, pos + 6, 16),
      IPv6Port            |-> d[pos + 23] * 256 + d[pos + 24],
      ConnectionID        |-> Slice(d, pos + 25, connIDLen),
      StatelessResetToken |-> Slice(d, pos + 25 + connIDLen, 16) ]

\* readPreferredAddress from the connection ID on: its length byte was read as connIDLen
readAddressTail(q, d, pos, expectedLen, connIDLen) ==
    IF Len(d) - pos < 25 + connIDLen
    THEN [p |-> q, pos |-> Len(d), err |-> Error("EOF", Zero64)]
    ELSE IF Len(d) - pos < 41 + connIDLen
    THEN [p |-> q, pos |-> Len(d), err |-> ReadFullError(Len(d) - pos - 25 - connIDLen)]
    ELSE IF 41 + connIDLen # expectedLen
    THEN [p |-> q, pos |-> pos + 41 + connIDLen,
          err |-> Error("expected preferred_address to be long", U64(expectedLen))]
    ELSE [p |-> [q EXCEPT !.PreferredAddress = Ptr(addressAt(d, pos, connIDLen))],
          pos |-> pos + 41 + connIDLen,
          err |-> NoError]

\* readPreferredAddress: the fields are read off the reader one after the other
\* (the reader ends with the buffer, not with the record), and the bytes read
\* are compared with the declared length only at the end.
readPreferredAddress(q, d, pos, expectedLen) ==
    IF Len(d) - pos < 4
    THEN [p |-> q, pos |-> Len(d), err |-> ReadFullError(Len(d) - pos)]
    ELSE IF Len(d) - pos < 6
    THEN [p |-> q, pos |-> Len(d), err |-> Error("EOF", Zero64)]
    ELSE IF Len(d) - pos < 22
    THEN [p |-> q, pos |-> Len(d), err |-> ReadFullError(Len(d) - pos - 6)]
    ELSE IF Len(d) - pos < 25
    THEN [p |-> q, pos |-> Len(d), err |-> Error("EOF", Zero64)]
    ELSE readAddressTail(q, d, pos, expectedLen, d[pos + 25])

\* r.Len() < int(paramLen) is false: the declared payload fits the rest of the input
hasRemaining(d, pos, paramLen) == ~LtU(U64(Len(d) - pos), paramLen)

\* a gate that is never closed
sentByNobody(by) == FALSE

\* sentBy == protocol.PerspectiveClient, the test that gates the server-only parameters
sentByClient(by) == by = PerspectiveClient

\* a skip that leaves the reader where it is
seekNowhere(pos, paramLen) == pos

\* r.Seek(int64(paramLen), io.SeekCurrent)
seekCurrent(pos, paramLen) == pos + ToNat(paramLen)

\* the walk's state with the outcome n of reading one payload
withOutcome(s, n) == [s EXCEPT !.p = n.p, !.pos = n.pos, !.err = n.err]

\* readAckDelayExponent = true / readMaxAckDelay = true
noteRead(s, paramID) ==
    [s EXCEPT !.readAckDelayExponent = @ \/ paramID = ackDelayExponentParameterID,
              !.readMaxAckDelay = @ \/ paramID = maxAckDelayParameterID]

\* the inner switch of unmarshal's default case, the declared length known to fit
readOther(s, d, by, paramID, paramLen) ==
    CASE paramID = preferredAddressParameterID ->
            IF sentByClient(by)
            THEN [s EXCEPT !.err = Error("client sent a preferred_address", paramID)]
            ELSE withOutcome(s, readPreferredAddress(s.p, d, s.pos, ToNat(paramLen)))
      [] paramID = disableActiveMigrationParameterID ->
            IF paramLen # Zero64
            THEN [s EXCEPT !.err = Error("wrong length for disable_active_migration", paramLen)]
            ELSE [s EXCEPT !.p.DisableActiveMigration = TRUE]
      [] paramID = statelessResetTokenParameterID ->
            IF sentByClient(by)
            THEN [s EXCEPT !.err = Error("client sent a stateless_reset_token", paramID)]
            ELSE IF paramLen # U64(16)
            THEN [s EXCEPT !.err = Error("wrong length for stateless_reset_token", paramLen)]
            ELSE [s EXCEPT !.p.StatelessResetToken = Ptr(Slice(d, s.pos, 16)),
                           !.pos = s.pos + 16]
      [] paramID = originalConnectionIDParameterID ->
            IF sentByClient(by)
            THEN [s EXCEPT !.err = Error("client sent an original_connection_id", paramID)]
            ELSE [s EXCEPT !.p.OriginalConnectionID = Slice(d, s.pos, ToNat(paramLen)),
                           !.pos = s.pos + ToNat(paramLen)]
      [] OTHER ->
            [s EXCEPT !.pos = seekCurrent(s.pos, paramLen)]

\* unmarshal's switch on the identifier, s holding the identifier appended
readPayload(s, d, by, paramID, paramLen) ==
    IF paramID \in NumericIDs
    THEN withOutcome(noteRead(s, paramID),
                     readNumericTransportParameter(s.p, d, s.pos, paramID, paramLen))
    ELSE IF ~hasRemaining(d, s.pos, paramLen)
    THEN [s EXCEPT !.err = Error("remaining length smaller than parameter length", paramLen)]
    ELSE readOther(s, d, by, paramID, paramLen)

\* the loop body after the identifier was read, lenR the outcome of reading the length
readLength(st, d, by, paramID, lenR) ==
    IF ~lenR.ok THEN [st EXCEPT !.err = Error("EOF", Zero64)]
    ELSE readPayload([st EXCEPT !.pos = lenR.pos, !.parameterIDs = Append(@, paramID)],
                     d, by, paramID, lenR.val)

\* the loop body, idR the outcome of reading the identifier
readIdentifier(st, d, by, idR) ==
    IF ~idR.ok THEN [st EXCEPT !.err = Error("EOF", Zero64)]
    ELSE readLength(st, d, by, idR.val, ReadVarInt(d, idR.pos))

\* one pass of unmarshal's loop: identifier, declared length, payload
readParameter(st, d, by) == readIdentifier(st, d, by, ReadVarInt(d, st.pos))

\* a loop that stops one byte early: for r.Len() > 1 { ... }
RECURSIVE walkButLastByte(_, _, _)
walkButLastByte(st, d, by) ==
    IF st.err # NoError \/ Len(d) - st.pos <= 1 THEN st
    ELSE walkButLastByte(readParameter(st, d, by), d, by)

\* for r.Len() > 0 { ... }, left at the first error
RECURSIVE walk(_, _, _)
walk(st, d, by) ==
    IF st.err # NoError \/ Len(d) - st.pos <= 0 THEN st
    ELSE walk(readParameter(st, d, by), d, by)

\* insertion of x into an ascending sequence
RECURSIVE insertSorted(_, _)
insertSorted(s, x) ==
    IF s = <<>> THEN <<x>>
    ELSE IF LtU(x, Head(s)) THEN <<x>> \o s
    ELSE <<Head(s)>> \o insertSorted(Tail(s), x)

\* the identifiers left in the order they were read
unsortedIDs(ids) == ids

\* sort.Slice(parameterIDs, less)
RECURSIVE sortIDs(_)
sortIDs(ids) == IF ids = <<>> THEN <<>> ELSE insertSorted(sortIDs(Tail(ids)), Head(ids))

\* the positions i with ids[i] == ids[i+1]
equalNeighbours(ids) == {i \in 1..(Len(ids) - 1) : ids[i] = ids[i + 1]}

\* the scan for two equal neighbours in the sorted identifiers; the first hit is the error
checkDuplicates(q, ids) ==
    IF equalNeighbours(ids) = {} THEN [p |-> q, err |-> NoError]
    ELSE [p |-> q,
          err |-> Error("received duplicate transport parameter",
                        ids[CHOOSE i \in equalNeighbours(ids) :
                                \A j \in equalNeighbours(ids) : i <= j])]

\* the defaults unmarshal sets after the walk
applyDefaults(w) ==
    [w.p EXCEPT !.AckDelayExponent = IF w.readAckDelayExponent THEN @ ELSE DefaultAckDelayExponent,
                !.MaxAckDelay = IF w.readMaxAckDelay THEN @ ELSE DefaultMaxAckDelay,
                !.MaxPacketSize = IF @ = Zero64 THEN MaxByteCount ELSE @]

\* unmarshal after its loop: an error of the walk is returned as it is, with the
\* receiver as the walk left it; otherwise the defaults, then the duplicate check
afterWalk(w) ==
    IF w.err # NoError THEN [p |-> w.p, err |-> w.err]
    ELSE checkDuplicates(applyDefaults(w), sortIDs(w.parameterIDs))

\* unmarshal
unmarshal(q, d, by) ==
    afterWalk(walk([p |-> q, pos |-> 0, parameterIDs |-> <<>>,
                    readAckDelayExponent |-> FALSE, readMaxAckDelay |-> FALSE,
                    err |-> NoError], d, by))

\* qerr.Error(qerr.TransportParameterError, err.Error())
wrapError(r) ==
    IF r.err # NoError
    THEN [p |-> r.p, err |-> [r.err EXCEPT !.code = "TRANSPORT_PARAMETER_ERROR"]]
    ELSE r

\* Unmarshal: unmarshal, its error wrapped as a qerr.TransportParameterError
Unmarshal(q, d, by) == wrapError(unmarshal(q, d, by))

\* UnmarshalFromSessionTicket after the version varint was read with outcome v
checkVersion(q, d, v) ==
    IF ~v.ok THEN [p |-> q, err |-> Error("EOF", Zero64)]
    ELSE IF v.val # U64(transportParameterMarshalingVersion)
    THEN [p |-> q, err |-> Error("unknown transport parameter marshaling version", v.val)]
    ELSE Unmarshal(q, Slice(d, v.pos, Len(d) - v.pos), PerspectiveServer)

\* UnmarshalFromSessionTicket: the version varint, then Unmarshal of the rest as sent by the server
UnmarshalFromSessionTicket(q, d) == checkVersion(q, d, ReadVarInt(d, 0))

-----
(* the encoder *)

\* a record whose declared length is always that of the longest varint
marshalVarintParamLen8(id, val) == WriteVarInt(id) \o WriteVarInt(U64(8)) \o WriteVarInt(val)

\* marshalVarintParam: identifier, the varint's own length, the varint
marshalVarintParam(id, val) ==
    WriteVarInt(id) \o WriteVarInt(U64(VarIntLen(val))) \o WriteVarInt(val)

\* utils.BigEndian.WriteUint16
WriteUint16(n) == <<n \div 256, n % 256>>

\* ipv4[len(ipv4)-4:]
Last4(ip) == SubSeq(ip, Len(ip) - 3, Len(ip))

\* Marshal.  greaseN is rand.Intn(100) and randomData the rand.Read bytes of
\* length rand.Intn(16).
Marshal(q, greaseN, randomData) ==
    WriteVarInt(U64(27 + 31 * greaseN))
    \o WriteVarInt(U64(Len(randomData)))
    \o randomData
    \o marshalVarintParam(initialMaxStreamDataBidiLocalParameterID, q.InitialMaxStreamDataBidiLocal)
    \o marshalVarintParam(initialMaxStreamDataBidiRemoteParameterID, q.InitialMaxStreamDataBidiRemote)
    \o marshalVarintParam(initialMaxStreamDataUniParameterID, q.InitialMaxStreamDataUni)
    \o marshalVarintParam(initialMaxDataParameterID, q.InitialMaxData)
    \o marshalVarintParam(initialMaxStreamsBidiParameterID, q.MaxBidiStreamNum)
    \o marshalVarintParam(initialMaxStreamsUniParameterID, q.MaxUniStreamNum)
    \o marshalVarintParam(maxIdleTimeoutParameterID, MillisOfDuration(q.MaxIdleTimeout))
    \o marshalVarintParam(maxPacketSizeParameterID, MaxReceivePacketSize)
    \o (IF q.MaxAckDelay # DefaultMaxAckDelay
        THEN marshalVarintParam(maxAckDelayParameterID, MillisOfDuration(q.MaxAckDelay))
        ELSE <<>>)
    \o (IF q.AckDelayExponent # DefaultAckDelayExponent
        THEN marshalVarintParam(ackDelayExponentParameterID, U64(q.AckDelayExponent))
        ELSE <<>>)
    \o (IF q.DisableActiveMigration
        THEN WriteVarInt(disableActiveMigrationParameterID) \o WriteVarInt(Zero64)
        ELSE <<>>)
    \o (IF q.StatelessResetToken # Nil
        THEN WriteVarInt(statelessResetTokenParameterID) \o WriteVarInt(U64(16))
             \o Deref(q.StatelessResetToken)
        ELSE <<>>)
    \o (IF q.PreferredAddress # Nil
        THEN LET a == Deref(q.PreferredAddress)
             IN  WriteVarInt(preferredAddressParameterID)
                 \o WriteVarInt(U64(4 + 2 + 16 + 2 + 1 + Len(a.ConnectionID) + 16))
                 \o Last4(a.IPv4)
                 \o WriteUint16(a.IPv4Port)
                 \o a.IPv6
                 \o WriteUint16(a.IPv6Port)
                 \o <<Len(a.ConnectionID) % 256>>
                 \o a.ConnectionID
                 \o a.StatelessResetToken
        ELSE <<>>)
    \o (IF Len(q.OriginalConnectionID) > 0
        THEN WriteVarInt(originalConnectionIDParameterID)
             \o WriteVarInt(U64(Len(q.OriginalConnectionID)))
             \o q.OriginalConnectionID
        ELSE <<>>)
    \o marshalVarintParam(activeConnectionIDLimitParameterID, q.ActiveConnectionIDLimit)

\* a ticket that leaves out active_connection_id_limit
MarshalForSessionTicketSixLimits(b, q) ==
    b
    \o WriteVarInt(U64(transportParameterMarshalingVersion))
    \o marshalVarintParam(initialMaxStreamDataBidiLocalParameterID, q.InitialMaxStreamDataBidiLocal)
    \o marshalVarintParam(initialMaxStreamDataBidiRemoteParameterID, q.InitialMaxStreamDataBidiRemote)
    \o marshalVarintParam(initialMaxStreamDataUniParameterID, q.InitialMaxStreamDataUni)
    \o marshalVarintParam(initialMaxDataParameterID, q.InitialMaxData)
    \o marshalVarintParam(initialMaxStreamsBidiParameterID, q.MaxBidiStreamNum)
    \o marshalVarintParam(initialMaxStreamsUniParameterID, q.MaxUniStreamNum)

\* MarshalForSessionTicket appends to the buffer b it is given
MarshalForSessionTicket(b, q) ==
    b
    \o WriteVarInt(U64(transportParameterMarshalingVersion))
    \o marshalVarintParam(initialMaxStreamDataBidiLocalParameterID, q.InitialMaxStreamDataBidiLocal)
    \o marshalVarintParam(initialMaxStreamDataBidiRemoteParameterID, q.InitialMaxStreamDataBidiRemote)
    \o marshalVarintParam(initialMaxStreamDataUniParameterID, q.InitialMaxStreamDataUni)
    \o marshalVarintParam(initialMaxDataParameterID, q.InitialMaxData)
    \o marshalVarintParam(initialMaxStreamsBidiParameterID, q.MaxBidiStreamNum)
    \o marshalVarintParam(initialMaxStreamsUniParameterID, q.MaxUniStreamNum)
    \o marshalVarintParam(activeConnectionIDLimitParameterID, q.ActiveConnectionIDLimit)

\* a comparison that forgets the unidirectional stream count
ValidFor0RTTFiveFields(q, t) ==
    /\ q.InitialMaxStreamDataBidiLocal = t.InitialMaxStreamDataBidiLocal
    /\ q.InitialMaxStreamDataBidiRemote = t.InitialMaxStreamDataBidiRemote
    /\ q.InitialMaxStreamDataUni = t.InitialMaxStreamDataUni
    /\ q.InitialMaxData = t.InitialMaxData
    /\ q.MaxBidiStreamNum = t.MaxBidiStreamNum

\* ValidFor0RTT
ValidFor0RTT(q, t) ==
    /\ q.InitialMaxStreamDataBidiLocal = t.InitialMaxStreamDataBidiLocal
    /\ q.InitialMaxStreamDataBidiRemote = t.InitialMaxStreamDataBidiRemote
    /\ q.InitialMaxStreamDataUni = t.InitialMaxStreamDataUni
    /\ q.InitialMaxData = t.InitialMaxData
    /\ q.MaxBidiStreamNum = t.MaxBidiStreamNum
    /\ q.MaxUniStreamNum = t.MaxUniStreamNum

---------------------------------------------------------------------------
(* the inputs explored *)

\* records of RecordSet composed into one hand-built buffer (one of EdgeRecords may follow)
MaxRecords == 2
\* Marshal's grease identifier is 27 + 31*n; n ranges over 0..MaxGreaseN (the code: 0..99)
MaxGreaseN == 2
\* length of Marshal's random grease payload, 0..MaxGreaseLen (the code: 0..15)
MaxGreaseLen == 1

\* 2^58 milliseconds: times 10^6 it is a multiple of 2^64
TwoTo58 == U64Hi(67108864, 0)

Token(b) == [i \in 1..16 |-> b + i]

LimitProfiles ==
    { [bl |-> Zero64, br |-> Zero64, un |-> Zero64, md |-> Zero64,
       sb |-> Zero64, su |-> Zero64, al |-> Zero64],
      [bl |-> U64(37), br |-> U64(15000), un |-> U64(16384), md |-> U64(1073741823),
       sb |-> U64Hi(1, 0), su |-> U64(63), al |-> MaxByteCount] }

DurationProfiles ==
    { [idle |-> Zero64, ack |-> DefaultMaxAckDelay, exp |-> DefaultAckDelayExponent],
      [idle |-> DurationOfMillis(U64(3000)), ack |-> Zero64, exp |-> 0],
      [idle |-> DurationOfMillis(U64(30000)), ack |-> DurationOfMillis(U64(16383)),
       exp |-> MaxAckDelayExponent],
      [idle |-> MinRemoteIdleTimeout, ack |-> DurationOfMillis(U64(26)),
       exp |-> DefaultAckDelayExponent] }

Address4 ==
    [ IPv4 |-> <<127, 0, 0, 1>>, IPv4Port |-> 42, IPv6 |-> [i \in 1..16 |-> 16 + i],
      IPv6Port |-> 13, ConnectionID |-> <<222, 202, 251, 173>>,
      StatelessResetToken |-> Token(32) ]

\* the IPv4 address in net.IP's 16-byte form, and no connection ID
Address16 ==
    [ IPv4 |-> <<0, 0, 0, 0, 0, 0, 0, 0, 0, 0, 255, 255, 10, 0, 0, 7>>, IPv4Port |-> 443,
      IPv6 |-> [i \in 1..16 |-> 64 + i], IPv6Port |-> 4433, ConnectionID |-> <<>>,
      StatelessResetToken |-> Token(48) ]

OptionalProfiles ==
    { [dam |-> FALSE, tok |-> Nil, pa |-> Nil, oc |-> <<>>],
      [dam |-> TRUE, tok |-> Ptr(Token(0)), pa |-> Ptr(Address4), oc |-> <<222, 173, 190, 239>>],
      [dam |-> FALSE, tok |-> Ptr(Token(0)), pa |-> Nil, oc |-> <<>>],
      [dam |-> TRUE, tok |-> Nil, pa |-> Ptr(Address16), oc |-> <<1>>] }

PacketSizes == {U64(1200), MaxReceivePacketSize}

\* the TransportParameters values handed to Marshal and MarshalForSessionTicket
ParamSet ==
    { [ InitialMaxStreamDataBidiLocal  |-> l.bl,
        InitialMaxStreamDataBidiRemote |-> l.br,
        InitialMaxStreamDataUni        |-> l.un,
        InitialMaxData                 |-> l.md,
        MaxAckDelay                    |-> t.ack,
        AckDelayExponent               |-> t.exp,
        DisableActiveMigration         |-> o.dam,
        MaxPacketSize                  |-> s,
        MaxUniStreamNum                |-> l.su,
        MaxBidiStreamNum               |-> l.sb,
        MaxIdleTimeout                 |-> t.idle,
        PreferredAddress               |-> o.pa,
        StatelessResetToken            |-> o.tok,
        OriginalConnectionID           |-> o.oc,
        ActiveConnectionIDLimit        |-> l.al ] :
      l \in LimitProfiles, t \in DurationProfiles, o \in OptionalProfiles, s \in PacketSizes }

GreaseBytes == {0, 171}

RECURSIVE SeqsUpTo(_, _)
SeqsUpTo(S, n) ==
    IF n = 0 THEN {<<>>}
    ELSE LET shorter == SeqsUpTo(S, n - 1)
         IN  shorter \cup {Append(x, b) : x \in {y \in shorter : Len(y) = n - 1}, b \in S}

\* a record on the wire: identifier, declared length, payload bytes
Record(id, len, payload) == [id |-> id, len |-> len, payload |-> payload]

\* a numeric record as marshalVarintParam writes it
NumRecord(id, val) == Record(id, U64(VarIntLen(val)), WriteVarInt(val))

\* a record whose declared length is its payload's length
RawRecord(id, payload) == Record(id, U64(Len(payload)), payload)

EncodeRecord(r) == WriteVarInt(r.id) \o WriteVarInt(r.len) \o r.payload

AddressPayload(a) ==
    Last4(a.IPv4) \o WriteUint16(a.IPv4Port) \o a.IPv6 \o WriteUint16(a.IPv6Port)
    \o <<Len(a.ConnectionID)>> \o a.ConnectionID \o a.StatelessResetToken

\* the records hand-built buffers are composed of, in any order: one of each
\* shape of record, every one well-formed and in range
RecordSet ==
    { NumRecord(initialMaxDataParameterID, U64(5)),
      NumRecord(maxIdleTimeoutParameterID, U64(30000)),
      RawRecord(disableActiveMigrationParameterID, <<>>),
      RawRecord(originalConnectionIDParameterID, <<222, 173, 190>>),
      \* unknown identifiers: two grease values (27 + 31*n)
      RawRecord(U64(27), <<>>),
      RawRecord(U64(89), <<7, 8>>) }

\* the records a hand-built buffer may end with: boundary values, the long
\* server-only parameters, a second value for an identifier of RecordSet, and
\* malformed records
EdgeRecords ==
    { NumRecord(initialMaxDataParameterID, U64(300)),
      NumRecord(maxIdleTimeoutParameterID, U64(4999)),
      NumRecord(maxIdleTimeoutParameterID, TwoTo58),
      NumRecord(maxPacketSizeParameterID, U64(1199)),
      NumRecord(maxPacketSizeParameterID, U64(1200)),
      NumRecord(ackDelayExponentParameterID, U64(MaxAckDelayExponent)),
      NumRecord(ackDelayExponentParameterID, U64(MaxAckDelayExponent + 1)),
      NumRecord(maxAckDelayParameterID, U64(MaxMaxAckDelayMillis - 1)),
      NumRecord(maxAckDelayParameterID, U64(MaxMaxAckDelayMillis)),
      NumRecord(maxAckDelayParameterID, TwoTo58),
      RawRecord(statelessResetTokenParameterID, Token(0)),
      RawRecord(preferredAddressParameterID, AddressPayload(Address4)),
      \* the first unassigned identifier
      RawRecord(U64(15), <<9>>),
      \* malformed: declared length 2 for a one-byte varint, a 15-byte token,
      \* an unknown record declaring more payload than it carries
      Record(initialMaxDataParameterID, U64(2), <<5>>),
      RawRecord(statelessResetTokenParameterID, SubSeq(Token(0), 1, 15)),
      Record(U64(27), U64(3), <<9>>) }

RECURSIVE Concat(_)
Concat(rs) == IF rs = <<>> THEN <<>> ELSE EncodeRecord(Head(rs)) \o Concat(Tail(rs))

-------------------------------------------------------------------------------------------------------------------------------------------------
(* the state machine: a buffer is produced, then decoded into a fresh receiver *)

Init ==
    /\ p = ZeroParams
    /\ data = <<>>
    /\ err = NoError
    /\ op = "init"
    /\ sentBy = ""
    /\ recs = <<>>
    /\ cut = 0
    /\ src = Nil
    /\ before = ZeroParams
    /\ tp = Nil
    /\ valid = FALSE

\* the peer's bytes: one more record is appended to a hand-built buffer
AppendRecord(r) ==
    /\ op \in {"init", "compose"}
    /\ Len(recs) < MaxRecords
    /\ recs' = Append(recs, r)
    /\ data' = data \o EncodeRecord(r)
    /\ op' = "compose"
    /\ UNCHANGED <<p, err, sentBy, cut, src, before, tp, valid>>

\* the peer's bytes: the hand-built buffer ends with a boundary or malformed record
AppendEdgeRecord(r) ==
    /\ op \in {"init", "compose"}
    /\ recs' = Append(recs, r)
    /\ data' = data \o EncodeRecord(r)
    /\ op' = "composed"
    /\ UNCHANGED <<p, err, sentBy, cut, src, before, tp, valid>>

\* the input is cut short: a strict, non-empty prefix of an encoding the decoder accepts
Truncate(k) ==
    /\ op \in {"compose", "composed"}
    /\ k \in 1..(Len(data) - 1)
    /\ Unmarshal(ZeroParams, data, PerspectiveServer).err = NoError
    /\ data' = SubSeq(data, 1, k)
    /\ cut' = k
    /\ op' = "truncate"
    /\ UNCHANGED <<p, err, sentBy, recs, src, before, tp, valid>>

CallMarshal(q, n, rnd) ==
    /\ op = "init"
    /\ data' = Marshal(q, n, rnd)
    /\ src' = Ptr(q)
    /\ op' = "Marshal"
    /\ UNCHANGED <<p, err, sentBy, recs, cut, before, tp, valid>>

CallUnmarshal(by) ==
    /\ op \in {"compose", "composed", "truncate", "Marshal"}
    /\ \E r \in {Unmarshal(p, data, by)} : p' = r.p /\ err' = r.err
    /\ before' = p
    /\ sentBy' = by
    /\ op' = "Unmarshal"
    /\ UNCHANGED <<data, recs, cut, src, tp, valid>>

CallMarshalForSessionTicket(q) ==
    /\ op = "init"
    /\ data' = MarshalForSessionTicket(data, q)
    /\ src' = Ptr(q)
    /\ op' = "MarshalForSessionTicket"
    /\ UNCHANGED <<p, err, sentBy, recs, cut, before, tp, valid>>

\* a ticket written under another marshaling version
OtherTicketVersion(v) ==
    /\ op = "MarshalForSessionTicket"
    /\ v # transportParameterMarshalingVersion
    /\ data' = WriteVarInt(U64(v)) \o Tail(data)
    /\ op' = "OtherTicketVersion"
    /\ UNCHANGED <<p, err, sentBy, recs, cut, src, before, tp, valid>>

CallUnmarshalFromSessionTicket ==
    /\ op \in {"MarshalForSessionTicket", "OtherTicketVersion"}
    /\ \E r \in {UnmarshalFromSessionTicket(p, data)} : p' = r.p /\ err' = r.err
    /\ before' = p
    /\ sentBy' = PerspectiveServer
    /\ op' = "UnmarshalFromSessionTicket"
    /\ UNCHANGED <<data, recs, cut, src, tp, valid>>

OtherValues == [ InitialMaxStreamDataBidiLocal  |-> U64(1),
                 InitialMaxStreamDataBidiRemote |-> U64(2),
                 InitialMaxStreamDataUni        |-> U64(3),
                 InitialMaxData                 |-> U64(4),
                 MaxAckDelay                    |-> DurationOfMillis(U64(7)),
                 AckDelayExponent               |-> 5,
                 DisableActiveMigration         |-> TRUE,
                 MaxPacketSize                  |-> U64(1300),
                 MaxUniStreamNum                |-> U64(6),
                 MaxBidiStreamNum               |-> U64(5),
                 MaxIdleTimeout                 |-> DurationOfMillis(U64(9000)),
                 PreferredAddress               |-> Ptr(Address16),
                 StatelessResetToken            |-> Ptr(Token(64)),
                 OriginalConnectionID           |-> <<5, 5>>,
                 ActiveConnectionIDLimit        |-> U64(8) ]

\* q itself, and q with one field changed
Variants(q) == {q} \cup {[q EXCEPT ![f] = OtherValues[f]] : f \in DOMAIN q}

\* the parameters restored from the ticket are compared with the current ones
CallValidFor0RTT(t) ==
    /\ op = "UnmarshalFromSessionTicket"
    /\ err = NoError
    /\ tp' = Ptr(t)
    /\ valid' = ValidFor0RTT(p, t)
    /\ op' = "ValidFor0RTT"
    /\ UNCHANGED <<p, data, err, sentBy, recs, cut, src, before>>

Next ==
    \/ \E r \in RecordSet : AppendRecord(r)
    \/ \E r \in EdgeRecords : AppendEdgeRecord(r)
    \/ \E k \in 1..Len(data) : Truncate(k)
    \/ \E q \in ParamSet, n \in 0..MaxGreaseN, rnd \in SeqsUpTo(GreaseBytes, MaxGreaseLen) :
          CallMarshal(q, n, rnd)
    \/ \E by \in {PerspectiveServer, PerspectiveClient} : CallUnmarshal(by)
    \/ \E q \in ParamSet : CallMarshalForSessionTicket(q)
    \/ \E v \in {0, 2, 64} : OtherTicketVersion(v)
    \/ CallUnmarshalFromSessionTicket
    \/ \E t \in Variants(p) : CallValidFor0RTT(t)

Spec == Init /\ [][Next]_vars

---------------------------------------------------------------------------
(* the vocabulary of the properties: what the composed records say, independently
   of the decoder *)

\* a whole hand-built buffer was decoded by Unmarshal
DecodedWhole == op = "Unmarshal" /\ src = Nil /\ cut = 0

\* a strict prefix of a hand-built buffer was decoded by Unmarshal
DecodedPrefix == op = "Unmarshal" /\ src = Nil /\ cut > 0

\* an encoding written by Marshal was decoded by Unmarshal
DecodedMarshalled == op = "Unmarshal" /\ src # Nil

ServerOnlyIDs ==
    {originalConnectionIDParameterID, statelessResetTokenParameterID, preferredAddressParameterID}

KnownIDs == NumericIDs \cup ServerOnlyIDs \cup {disableActiveMigrationParameterID}

\* the identifiers that occur in more than one record of rs
Repeated(rs) ==
    {rs[i].id : i \in {i \in DOMAIN rs : \E j \in DOMAIN rs : j # i /\ rs[j].id = rs[i].id}}

\* the declared length is the length of the payload carried
Framed(r) == r.len = U64(Len(r.payload))

\* the payload is what the wire format prescribes for the identifier
WellFormed(r) ==
    /\ Framed(r)
    /\ CASE r.id \in NumericIDs ->
                ReadVarInt(r.payload, 0).ok /\ ReadVarInt(r.payload, 0).pos = Len(r.payload)
         [] r.id = disableActiveMigrationParameterID -> r.payload = <<>>
         [] r.id = statelessResetTokenParameterID -> Len(r.payload) = 16
         [] r.id = preferredAddressParameterID ->
                Len(r.payload) >= 25 /\ Len(r.payload) = 41 + r.payload[25]
         [] OTHER -> TRUE

\* the value a well-formed numeric record carries
WireValue(r) == ReadVarInt(r.payload, 0).val

\* the value of a well-formed numeric record is outside the range of its parameter
OutOfRange(r) ==
    CASE r.id = maxPacketSizeParameterID -> LtU(WireValue(r), U64(1200))
      [] r.id = ackDelayExponentParameterID -> LtU(U64(MaxAckDelayExponent), WireValue(r))
      [] r.id = maxAckDelayParameterID -> ~LtU(WireValue(r), U64(MaxMaxAckDelayMillis))
      [] OTHER -> FALSE

AllFramed(rs) == \A i \in DOMAIN rs : Framed(rs[i])
AllWellFormed(rs) == \A i \in DOMAIN rs : WellFormed(rs[i])
AllValid(rs) == \A i \in DOMAIN rs : WellFormed(rs[i]) /\ ~OutOfRange(rs[i])

\* the least of a non-empty set of identifiers
Least(S) == CHOOSE x \in S : \A y \in S : x = y \/ LtU(x, y)

\* the offsets at which a record of rs ends in Concat(rs)
Boundaries(rs) == {Len(Concat(SubSeq(rs, 1, i))) : i \in DOMAIN rs}

\* a duration is a whole, non-negative number of milliseconds
WholeMillis(d) == ~IsNeg(d) /\ DurationOfMillis(MillisOfDuration(d)) = d

---------------------------------------------------------------------------
(* C10 *)

\* the six fields ValidFor0RTT is specified to compare
ZeroRTTFields ==
    {"InitialMaxStreamDataBidiLocal", "InitialMaxStreamDataBidiRemote", "InitialMaxStreamDataUni",
     "InitialMaxData", "MaxBidiStreamNum", "MaxUniStreamNum"}

\* C10: ValidFor0RTT(p, tp) is true exactly when p and tp agree on the four
\* flow-control limits and the two stream counts; it gives the same answer with
\* its arguments exchanged, and no other field of either value changes the answer.
Thm_C10_ValidFor0RTT ==
    op = "ValidFor0RTT" =>
        /\ valid = (\A f \in ZeroRTTFields : p[f] = Deref(tp)[f])
        /\ valid = ValidFor0RTT(Deref(tp), p)
        /\ \A f \in (DOMAIN p) \ ZeroRTTFields :
              /\ ValidFor0RTT([p EXCEPT ![f] = OtherValues[f]], Deref(tp)) = valid
              /\ ValidFor0RTT(p, [Deref(tp) EXCEPT ![f] = OtherValues[f]]) = valid

\* the answer is true although the two values differ, and there is a state
\* where it is false
Wit_C10_ValidFor0RTT ==
    /\ op = "ValidFor0RTT"
    /\ valid
    /\ Deref(tp) # p
    /\ p.InitialMaxData # Zero64

---------------------------------------------------------------------------
(* C9 *)

\* what a session ticket restores of q: the seven stored limits, every other
\* field as the decoder leaves it when no record names it
TicketFields(q) ==
    [ZeroParams EXCEPT !.InitialMaxStreamDataBidiLocal = q.InitialMaxStreamDataBidiLocal,
                       !.InitialMaxStreamDataBidiRemote = q.InitialMaxStreamDataBidiRemote,
                       !.InitialMaxStreamDataUni = q.InitialMaxStreamDataUni,
                       !.InitialMaxData = q.InitialMaxData,
                       !.MaxBidiStreamNum = q.MaxBidiStreamNum,
                       !.MaxUniStreamNum = q.MaxUniStreamNum,
                       !.ActiveConnectionIDLimit = q.ActiveConnectionIDLimit,
                       !.AckDelayExponent = DefaultAckDelayExponent,
                       !.MaxAckDelay = DefaultMaxAckDelay,
                       !.MaxPacketSize = MaxByteCount]

\* C9: UnmarshalFromSessionTicket of MarshalForSessionTicket(nil, p) succeeds and
\* restores the seven stored limits of p, every other field being at its default
\* whatever p held; a ticket whose version number is not the current one is
\* rejected with the unknown-version error and the receiver untouched.
Thm_C9_SessionTicket ==
    op = "UnmarshalFromSessionTicket" =>
        IF data = MarshalForSessionTicket(<<>>, Deref(src))
        THEN err = NoError /\ p = TicketFields(Deref(src))
        ELSE /\ err.kind = "unknown transport parameter marshaling version"
             /\ err.arg = ReadVarInt(data, 0).val
             /\ err.arg # U64(transportParameterMarshalingVersion)
             /\ p = before

\* a ticket of a value with non-zero limits and non-default other fields was restored
Wit_C9_SessionTicket ==
    /\ op = "UnmarshalFromSessionTicket"
    /\ err = NoError
    /\ p.ActiveConnectionIDLimit # Zero64
    /\ p.InitialMaxStreamDataUni # Zero64
    /\ Deref(src).MaxAckDelay # DefaultMaxAckDelay
    /\ Deref(src).StatelessResetToken # Nil
    /\ p # Deref(src)

---------------------------------------------------------------------------
(* C4 *)

\* C4: when Unmarshal or UnmarshalFromSessionTicket returns an error, every field
\* of the receiver is as it was before the call.
Cex_C4_NoPartialResult ==
    (op \in {"Unmarshal", "UnmarshalFromSessionTicket"} /\ err # NoError) => p = before

---------------------------------------------------------------------------
(* C6 *)

\* the records of rs that carry parameter id
RecordsOf(rs, id) == {i \in DOMAIN rs : rs[i].id = id}

\* C6: a buffer holding a max_packet_size below 1200, an ack_delay_exponent above
\* the maximum, or a max_ack_delay of at least the maximum number of milliseconds
\* is rejected; the boundary values 1200, the maximum exponent and one millisecond
\* below the maximum delay are accepted and stored as they are; after a successful
\* decode MaxPacketSize >= 1200, AckDelayExponent is at most the maximum and
\* MaxAckDelay is below the maximum or is the infinite duration.
Cex_C6_RangeValidation ==
    (DecodedWhole /\ AllWellFormed(recs)) =>
        /\ (\E i \in DOMAIN recs : OutOfRange(recs[i])) => err # NoError
        /\ err = NoError =>
              /\ ~LtU(p.MaxPacketSize, U64(1200))
              /\ p.AckDelayExponent <= MaxAckDelayExponent
              /\ (LtS(p.MaxAckDelay, MaxMaxAckDelay) /\ ~IsNeg(p.MaxAckDelay))
                    \/ p.MaxAckDelay = InfDuration
              /\ \A i \in RecordsOf(recs, maxPacketSizeParameterID) :
                    p.MaxPacketSize = WireValue(recs[i])
              /\ \A i \in RecordsOf(recs, ackDelayExponentParameterID) :
                    U64(p.AckDelayExponent) = WireValue(recs[i])
              /\ \A i \in RecordsOf(recs, maxAckDelayParameterID) :
                    WholeMillis(p.MaxAckDelay) /\ MillisOfDuration(p.MaxAckDelay) = WireValue(recs[i])

---------------------------------------------------------------------------
(* C8 *)

\* the larger of two unsigned values
MaxU(a, b) == IF LtU(a, b) THEN b ELSE a

\* C8: a successfully decoded max_idle_timeout record of wire value v leaves
\* MaxIdleTimeout at the larger of the minimum remote idle timeout and v
\* milliseconds, whatever v is: never below the floor, never below v milliseconds.
Cex_C8_IdleTimeoutClamp ==
    (DecodedWhole /\ AllWellFormed(recs) /\ err = NoError) =>
        \A i \in RecordsOf(recs, maxIdleTimeoutParameterID) :
            /\ WholeMillis(p.MaxIdleTimeout)
            /\ MillisOfDuration(p.MaxIdleTimeout)
                  = MaxU(U64(MinRemoteIdleTimeoutMillis), WireValue(recs[i]))

---------------------------------------------------------------------------
(* C2 *)

\* the error value Unmarshal returns for a reason and its argument
TransportParameterError(kind, arg) ==
    [code |-> "TRANSPORT_PARAMETER_ERROR", kind |-> kind, arg |-> arg]

\* a server-only record is decoded as sent by the client
RoleViolated(rs, by) ==
    by = PerspectiveClient /\ \E i \in DOMAIN rs : rs[i].id \in ServerOnlyIDs

\* C2: a buffer in which two records carry the same identifier, whatever the
\* identifier, the positions and the values, is never accepted by Unmarshal; when
\* every record is well-formed and in range and the role permits them all, the
\* error is the duplicate-parameter error naming the repeated identifier (the
\* least one when several are repeated).
Thm_C2_DuplicateRejected ==
    (DecodedWhole /\ AllFramed(recs) /\ Repeated(recs) # {}) =>
        /\ err # NoError
        /\ (AllValid(recs) /\ ~RoleViolated(recs, sentBy)) =>
              err = TransportParameterError("received duplicate transport parameter",
                                            Least(Repeated(recs)))

\* two records of one identifier with different values, another record between
\* them, rejected as a duplicate
Wit_C2_DuplicateRejected ==
    /\ DecodedWhole
    /\ Len(recs) = 3
    /\ recs[1].id = recs[3].id
    /\ recs[1].payload # recs[3].payload
    /\ recs[2].id # recs[1].id
    /\ err.kind = "received duplicate transport parameter"
    /\ err.arg = recs[1].id

---------------------------------------------------------------------------
(* C5 *)

\* the role-violation error for a server-only identifier
RoleError(id) ==
    TransportParameterError(
        CASE id = preferredAddressParameterID -> "client sent a preferred_address"
          [] id = statelessResetTokenParameterID -> "client sent a stateless_reset_token"
          [] id = originalConnectionIDParameterID -> "client sent an original_connection_id",
        id)

\* the first server-only record of rs
FirstServerOnly(rs) ==
    rs[CHOOSE i \in DOMAIN rs :
          /\ rs[i].id \in ServerOnlyIDs
          /\ \A j \in 1..(i - 1) : rs[j].id \notin ServerOnlyIDs]

\* the optional field of q a server-only record r stands for holds r's payload
Populated(q, r) ==
    CASE r.id = statelessResetTokenParameterID -> q.StatelessResetToken = Ptr(r.payload)
      [] r.id = originalConnectionIDParameterID -> q.OriginalConnectionID = r.payload
      [] r.id = preferredAddressParameterID ->
            /\ q.PreferredAddress # Nil
            /\ AddressPayload(Deref(q.PreferredAddress)) = r.payload
      [] OTHER -> TRUE

\* C5: a buffer holding a preferred_address, stateless_reset_token or
\* original_connection_id record is rejected when decoded as sent by the client
\* (with the role-violation error of the first such record when the records are
\* valid); decoded as sent by the server, with valid records and no duplicate, it
\* is accepted and the optional fields hold the payloads of those records.
Thm_C5_RoleGating ==
    (DecodedWhole /\ AllFramed(recs) /\ \E i \in DOMAIN recs : recs[i].id \in ServerOnlyIDs) =>
        IF sentBy = PerspectiveClient
        THEN /\ err # NoError
             /\ AllValid(recs) => err = RoleError(FirstServerOnly(recs).id)
        ELSE (AllValid(recs) /\ Repeated(recs) = {}) =>
                /\ err = NoError
                /\ \A i \in DOMAIN recs : Populated(p, recs[i])

\* a valid buffer whose last record is a preferred address, after two other
\* records, was rejected for the client's role
Wit_C5_RoleGating ==
    /\ DecodedWhole
    /\ sentBy = PerspectiveClient
    /\ AllValid(recs)
    /\ Repeated(recs) = {}
    /\ Len(recs) = 3
    /\ recs[3].id = preferredAddressParameterID
    /\ recs[1].id \notin ServerOnlyIDs
    /\ recs[2].id \notin ServerOnlyIDs
    /\ err = RoleError(preferredAddressParameterID)

---------------------------------------------------------------------------
(* C7 *)

\* rs without its records of unrecognized identifiers
RECURSIVE KnownOnly(_)
KnownOnly(rs) ==
    IF rs = <<>> THEN <<>>
    ELSE IF Head(rs).id \in KnownIDs THEN <<Head(rs)>> \o KnownOnly(Tail(rs))
    ELSE KnownOnly(Tail(rs))

\* C7: records of unrecognized identifiers (grease values among them), each
\* identifier occurring once, change nothing: the buffer decodes to the result,
\* error or value, of the buffer without them, whatever their place and payload.
Thm_C7_UnknownSkipped ==
    (DecodedWhole /\ AllFramed(recs) /\ Repeated(recs) \subseteq KnownIDs) =>
        \A r \in {Unmarshal(before, Concat(KnownOnly(recs)), sentBy)} :
            err = r.err /\ p = r.p

\* an unrecognized record with a payload between two recognized records, accepted
Wit_C7_UnknownSkipped ==
    /\ DecodedWhole
    /\ err = NoError
    /\ Len(recs) = 3
    /\ recs[1].id \in KnownIDs
    /\ recs[2].id \notin KnownIDs
    /\ recs[2].payload # <<>>
    /\ recs[3].id \in KnownIDs
    /\ p.InitialMaxData = U64(300)

---------------------------------------------------------------------------
(* C3 *)

\* Unmarshal accepts the whole buffer composed of rs
Accepted(rs, by) == Unmarshal(ZeroParams, Concat(rs), by).err = NoError

\* the errors of a read that met the end of the input
TruncationErrors ==
    {"EOF", "unexpected EOF", "error while reading transport parameter",
     "remaining length smaller than parameter length"}

\* C3: every strict non-empty prefix of a buffer Unmarshal accepts is rejected.
Cex_C3_TruncatedRejected ==
    (DecodedPrefix /\ AllFramed(recs) /\ Accepted(recs, sentBy)) => err # NoError

\* C3, amended: a strict non-empty prefix of a buffer Unmarshal accepts is
\* rejected, with an error of a read that met the end of the input, exactly when
\* it ends inside a record; a prefix that ends between two records is accepted.
Thm_C3_TruncatedInsideRecord ==
    (DecodedPrefix /\ AllFramed(recs) /\ Accepted(recs, sentBy)) =>
        IF cut \in Boundaries(recs)
        THEN err = NoError
        ELSE err # NoError /\ err.kind \in TruncationErrors

\* a prefix that ends between the second and the third record was accepted
Wit_C3_TruncatedInsideRecord ==
    /\ DecodedPrefix
    /\ Accepted(recs, sentBy)
    /\ Len(recs) = 3
    /\ cut = Len(Concat(SubSeq(recs, 1, 2)))
    /\ err = NoError

---------------------------------------------------------------------------
(* C1 *)

\* a value Marshal can encode: limits a varint holds, durations of whole
\* milliseconds, the ack delay and its exponent in range, addresses of the
\* lengths of an IP address
ValidParams(q) ==
    /\ \A f \in ZeroRTTFields \cup {"ActiveConnectionIDLimit", "MaxPacketSize"} :
          CanWriteVarInt(q[f])
    /\ WholeMillis(q.MaxIdleTimeout)
    /\ WholeMillis(q.MaxAckDelay)
    /\ LtS(q.MaxAckDelay, MaxMaxAckDelay)
    /\ q.AckDelayExponent \in 0..MaxAckDelayExponent
    /\ ~LtU(q.MaxPacketSize, U64(1200))
    /\ q.StatelessResetToken # Nil => Len(Deref(q.StatelessResetToken)) = 16
    /\ q.PreferredAddress # Nil =>
          /\ Len(Deref(q.PreferredAddress).IPv4) \in {4, 16}
          /\ Len(Deref(q.PreferredAddress).IPv6) = 16
          /\ Len(Deref(q.PreferredAddress).ConnectionID) <= 20
          /\ Len(Deref(q.PreferredAddress).StatelessResetToken) = 16

\* q holds a parameter only the server may send
HasServerOnly(q) ==
    q.PreferredAddress # Nil \/ q.StatelessResetToken # Nil \/ Len(q.OriginalConnectionID) > 0

\* what decoding Marshal's encoding of q yields
Image(q) ==
    [q EXCEPT !.MaxPacketSize = MaxReceivePacketSize,
              !.MaxIdleTimeout = MaxDuration(MinRemoteIdleTimeout, @),
              !.PreferredAddress =
                  IF @ = Nil THEN Nil ELSE Ptr([Deref(@) EXCEPT !.IPv4 = Last4(@)])]

\* C1: for every valid value p and either role, Unmarshal of Marshal(p) succeeds
\* and yields p field by field, MaxPacketSize and MaxIdleTimeout included.
Cex_C1_RoundTrip ==
    (DecodedMarshalled /\ ValidParams(Deref(src))) => err = NoError /\ p = Deref(src)

\* C1, amended: for every valid value p, Unmarshal of Marshal(p) as sent by the
\* server, or by the client when p holds no server-only parameter, succeeds and
\* yields p except that MaxPacketSize is the local maximum receive packet size,
\* MaxIdleTimeout is raised to the minimum remote idle timeout, and the IPv4
\* address is in its 4-byte form; as sent by the client with a server-only
\* parameter it fails.
Thm_C1_RoundTripImage ==
    (DecodedMarshalled /\ ValidParams(Deref(src))) =>
        IF sentBy = PerspectiveClient /\ HasServerOnly(Deref(src))
        THEN err # NoError
        ELSE err = NoError /\ p = Image(Deref(src))

\* a value with every optional field, a non-default ack delay and another packet
\* size was encoded and decoded again
Wit_C1_RoundTripImage ==
    /\ DecodedMarshalled
    /\ err = NoError
    /\ Deref(src).PreferredAddress # Nil
    /\ Deref(src).StatelessResetToken # Nil
    /\ Deref(src).DisableActiveMigration
    /\ Deref(src).MaxAckDelay # DefaultMaxAckDelay
    /\ Deref(src).MaxPacketSize # MaxReceivePacketSize
    /\ p.MaxPacketSize = MaxReceivePacketSize
    /\ p.InitialMaxData = Deref(src).InitialMaxData
    /\ p.InitialMaxData # Zero64

====
